---- MODULE Spec2Model ----
(***************************************************************************)
(* Model of src/main.py: parse_file() lists the input location, posts the  *)
(* first entry to the parsing API and writes the returned text to          *)
(* data/outputs.  One action per statement group of parse_file, so that    *)
(* the order of the I/O steps and the exception-to-result mapping of the   *)
(* except clauses are explicit.                                            *)
(*                                                                         *)
(* Strings of the source that are not ASCII are written as ASCII           *)
(* stand-ins, with the source line next to them.                           *)
(***************************************************************************)
EXTENDS Integers, Sequences, FiniteSets, TLC

\* ---------------------------------------------------------------- bounds
MaxEntries == 2
MaxCalls == 2

\* ------------------------------------------------------------- constants
DATA_INPUTS == "data/inputs/input"
DATA_OUTPUTS == "data/outputs"
DOCUMENTED_INPUTS == "data/inputs"
API_BASE_URL == "http://10.0.0.111:31475"

\* the texts of the result dicts, in English for the Chinese of the source
MSG_NO_INPUT == "no input file found"                      \* main.py:57
MSG_PARSE_FAILED == "parse failed"                         \* main.py:86
MSG_SUCCESS == "file parsed successfully"                  \* main.py:103
MSG_TIMEOUT == "request timed out, the file may be too large or the server slow"
MSG_CONNECTION == "cannot connect to server " \o API_BASE_URL  \* main.py:119
MSG_HTTP == "HTTP error: "                                 \* main.py:126

\* ------------------------------------------------------------ file names
\* A file name is a sequence of characters, so that Path.stem is computed.
TEST_PDF == <<"t", "e", "s", "t", ".", "p", "d", "f">>
DOT_ENV == <<".", "e", "n", "v">>
A_TAR_GZ == <<"a", ".", "t", ".", "g">>
INPUT_DIR_NAME == <<"i", "n", "p", "u", "t">>
PARSED_SUFFIX == <<"_", "p", "a", "r", "s", "e", "d", ".", "m", "d">>

Names == {TEST_PDF, DOT_ENV, A_TAR_GZ}

\* str.rfind, 1-based; 0 when the character does not occur
RFind(s, ch) ==
  LET hits == {i \in 1..Len(s) : s[i] = ch}
  IN IF hits = {} THEN 0 ELSE CHOOSE i \in hits : \A j \in hits : j <= i

\* pathlib PurePath.stem: cut the last suffix, unless the only dot leads or
\* ends the name
Stem(name) ==
  LET i == RFind(name, ".")
  IN IF 1 < i /\ i < Len(name) THEN SubSeq(name, 1, i - 1) ELSE name

OutputFilenameKeepSuffix(f) == f.name \o PARSED_SUFFIX

\* output_filename = f"{input_file.stem}_parsed.md"
OutputFilename(f) == Stem(f.name) \o PARSED_SUFFIX

\* ------------------------------------------------------------ exceptions
NoExc == [cls |-> "none", msg |-> "", response |-> FALSE]

Exc(cls, msg) == [cls |-> cls, msg |-> msg, response |-> FALSE]

\* the classes an exception class is an instance of (its MRO, up to Exception)
Supers(cls) ==
  CASE cls = "ReadTimeout" ->
         {"ReadTimeout", "Timeout", "RequestException", "OSError", "Exception"}
    [] cls = "ConnectTimeout" ->
         {"ConnectTimeout", "ConnectionError", "Timeout", "RequestException",
          "OSError", "Exception"}
    [] cls = "ConnectionError" ->
         {"ConnectionError", "RequestException", "OSError", "Exception"}
    [] cls = "HTTPError" ->
         {"HTTPError", "RequestException", "OSError", "Exception"}
    [] cls = "JSONDecodeError" ->
         {"JSONDecodeError", "RequestException", "OSError", "ValueError",
          "Exception"}
    [] cls = "UnicodeEncodeError" ->
         {"UnicodeEncodeError", "ValueError", "Exception"}
    [] cls \in {"IsADirectoryError", "PermissionError"} ->
         {cls, "OSError", "Exception"}
    [] OTHER -> {cls, "Exception"}

IsInstance(e, cls) == cls \in Supers(e.cls)

\* ------------------------------------------------------------- responses
ABSENT == "<absent>"
NON_STR == "<not a str>"
LONE_SURROGATE == "<str with a lone surrogate>"
TEST_DOCUMENT == "# Test Document"

\* a JSON value of the 'code' field: Python None when the key is absent
PyNone == [present |-> FALSE, v |-> 0]
PyInt(n) == [present |-> TRUE, v |-> n]

Codes == {PyNone, PyInt(200), PyInt(500)}
Messages == {ABSENT, "Internal server error"}
Contents == {ABSENT, TEST_DOCUMENT, NON_STR, LONE_SURROGATE}

Bodies ==
  [kind : {"object"}, code : Codes, message : Messages, content : Contents]
  \cup [kind : {"notjson", "nonobject"}, code : {PyNone}, message : {ABSENT},
        content : {ABSENT}]

Text(body) ==
  CASE body.kind = "notjson" -> "Not Found"
    [] body.kind = "nonobject" -> "[]"
    [] OTHER -> "{...}"

Responses ==
  {[status_code |-> s, text |-> Text(b), body |-> b] :
     s \in {200, 404}, b \in Bodies}

NoResponse ==
  [status_code |-> 0, text |-> "",
   body |-> [kind |-> "none", code |-> PyNone, message |-> ABSENT,
             content |-> ABSENT]]

\* dict.get(key, default) on a field of the decoded body
Get(field, default) == IF field = ABSENT THEN default ELSE field

IsStr(c) == c # NON_STR
Utf8Encodable(c) == c # LONE_SURROGATE

\* --------------------------------------------------------------- results
NoResult == [k \in {} |-> TRUE]

NoInputResultWrongCode ==
  [success |-> FALSE, error |-> MSG_NO_INPUT, error_code |-> "UNEXPECTED_ERROR"]

NoInputResult ==
  [success |-> FALSE, error |-> MSG_NO_INPUT, error_code |-> "NO_INPUT_FILE"]

ParseFailedResult(body) ==
  [success |-> FALSE, error |-> Get(body.message, MSG_PARSE_FAILED),
   error_code |-> "PARSE_FAILED"]

SuccessResult(c, f) ==
  [success |-> TRUE, message |-> MSG_SUCCESS, content |-> c,
   input_file |-> f.name, output_file |-> OutputFilename(f)]

CodeIsNot200NoneOk(body) == body.code.present /\ body.code.v # 200

\* result.get('code') != 200
CodeIsNot200(body) == ~body.code.present \/ body.code.v # 200

\* ------------------------------------------------------------ file system
Entry(dir, name, kind) == [dir |-> dir, name |-> name, kind |-> kind]

NoFile == [dir |-> "", name |-> <<>>, kind |-> "none"]

InputEntries == {Entry(DATA_INPUTS, n, k) : n \in Names, k \in {"file", "dir"}}

\* directory listings: sequences of entries with distinct names
Listings ==
  {l \in UNION {[1..k -> InputEntries] : k \in 0..MaxEntries} :
     \A i, j \in 1..Len(l) : l[i].name = l[j].name => i = j}

NoFiles == [n \in {} |-> ""]

Put(files, n, c) ==
  [x \in (DOMAIN files) \cup {n} |-> IF x = n THEN c ELSE files[x]]

VARIABLES
  direct,       \* files placed directly in data/inputs
  sub,          \* the directory data/inputs/input: its state and listing
  outDir,       \* data/outputs exists
  outputs,      \* files of data/outputs: name -> text
  pc,           \* position in parse_file
  calls,        \* invocations so far
  input_files,  \* local input_files
  input_file,   \* local input_file
  response,     \* local response
  result_json,  \* local result (the decoded body)
  content,      \* local content
  result,       \* the returned dict
  raised,       \* the exception that left parse_file, if any
  exc,          \* the exception raised in the try block, if any
  posts,        \* requests.post calls of this invocation
  sent,         \* the file handed to requests.post
  decoded,      \* response.json() was called in this invocation
  rfsRaised,    \* raise_for_status raised in this invocation
  written,      \* output files opened for writing in this invocation
  outBefore     \* data/outputs as it was when the invocation started

env == <<direct, sub>>
out == <<outDir, outputs>>
locals == <<input_files, input_file, response, result_json, content>>
history == <<posts, sent, decoded, rfsRaised, written, outBefore>>
vars == <<env, out, pc, calls, locals, result, raised, exc, history>>

\* Path.glob("*") on one of the two input directories
Glob(path) ==
  IF path = DATA_INPUTS
  THEN (IF sub.state = "dir" THEN sub.entries ELSE <<>>)
  ELSE direct \o (IF sub.state = "missing" THEN <<>>
                  ELSE <<Entry(DOCUMENTED_INPUTS, INPUT_DIR_NAME, "dir")>>)

GlobRaises(path) == path = DATA_INPUTS /\ sub.state = "ioerror"

Init ==
  /\ direct \in {<<>>, <<Entry(DOCUMENTED_INPUTS, TEST_PDF, "file")>>}
  /\ sub \in [state : {"missing", "ioerror"}, entries : {<<>>}]
             \cup [state : {"dir"}, entries : Listings]
  /\ outDir \in BOOLEAN
  /\ outputs \in {NoFiles}
                 \cup (IF outDir
                       THEN {[x \in {OutputFilename([name |-> n])} |-> "old"] :
                               n \in Names}
                       ELSE {})
  /\ pc = "idle"
  /\ calls = 0
  /\ input_files = <<>>
  /\ input_file = NoFile
  /\ response = NoResponse
  /\ result_json = NoResponse.body
  /\ content = ABSENT
  /\ result = NoResult
  /\ raised = NoExc
  /\ exc = NoExc
  /\ posts = 0
  /\ sent = NoFile
  /\ decoded = FALSE
  /\ rfsRaised = FALSE
  /\ written = {}
  /\ outBefore = [dir |-> outDir, files |-> outputs]

\* -------------------------------------------------------- except clauses
HttpErrorResult ==
  [success |-> FALSE,
   error |-> MSG_HTTP \o ToString(response.status_code) \o " - "
             \o response.text,
   error_code |-> "HTTP_ERROR"]

HandleRetryTimeout(e) ==
  IF IsInstance(e, "Timeout")
  THEN [pc |-> "post", result |-> NoResult, raised |-> NoExc]
  ELSE IF IsInstance(e, "ConnectionError")
  THEN [pc |-> "done", raised |-> NoExc,
        result |-> [success |-> FALSE, error |-> MSG_CONNECTION,
                    error_code |-> "CONNECTION_ERROR"]]
  ELSE IF IsInstance(e, "HTTPError")
  THEN (IF e.response
        THEN [pc |-> "done", raised |-> NoExc, result |-> HttpErrorResult]
        ELSE [pc |-> "raised", result |-> NoResult,
              raised |-> Exc("AttributeError",
                             "'NoneType' object has no attribute 'status_code'")])
  ELSE [pc |-> "done", raised |-> NoExc,
        result |-> [success |-> FALSE, error |-> e.msg,
                    error_code |-> "UNEXPECTED_ERROR"]]

\* the first except clause that matches e decides; an exception raised
\* inside a clause leaves parse_file
Handle(e) ==
  IF IsInstance(e, "Timeout")
  THEN [pc |-> "done", raised |-> NoExc,
        result |-> [success |-> FALSE, error |-> MSG_TIMEOUT,
                    error_code |-> "TIMEOUT"]]
  ELSE IF IsInstance(e, "ConnectionError")
  THEN [pc |-> "done", raised |-> NoExc,
        result |-> [success |-> FALSE, error |-> MSG_CONNECTION,
                    error_code |-> "CONNECTION_ERROR"]]
  ELSE IF IsInstance(e, "HTTPError")
  THEN (IF e.response
        THEN [pc |-> "done", raised |-> NoExc, result |-> HttpErrorResult]
        ELSE [pc |-> "raised", result |-> NoResult,
              raised |-> Exc("AttributeError",
                             "'NoneType' object has no attribute 'status_code'")])
  ELSE [pc |-> "done", raised |-> NoExc,
        result |-> [success |-> FALSE, error |-> e.msg,
                    error_code |-> "UNEXPECTED_ERROR"]]

\* an exception raised inside the try block
Raise(e) ==
  /\ exc' = e
  /\ pc' = Handle(e).pc
  /\ result' = Handle(e).result
  /\ raised' = Handle(e).raised

Return(r) ==
  /\ pc' = "done"
  /\ result' = r
  /\ UNCHANGED <<raised, exc>>

Goto(p) ==
  /\ pc' = p
  /\ UNCHANGED <<result, raised, exc>>

\* ------------------------------------------------------------ parse_file
\* the call, the listing of the input location and the choice of the first
\* entry
Call ==
  /\ pc \in {"idle", "done", "raised"}
  /\ calls < MaxCalls
  /\ calls' = calls + 1
  /\ posts' = 0
  /\ sent' = NoFile
  /\ decoded' = FALSE
  /\ rfsRaised' = FALSE
  /\ written' = {}
  /\ outBefore' = [dir |-> outDir, files |-> outputs]
  /\ response' = NoResponse
  /\ result_json' = NoResponse.body
  /\ content' = ABSENT
  /\ IF GlobRaises(DATA_INPUTS)
     THEN /\ input_files' = <<>>
          /\ input_file' = NoFile
          /\ Raise(Exc("OSError", "Input/output error"))
     ELSE /\ input_files' = Glob(DATA_INPUTS)
          /\ IF Glob(DATA_INPUTS) = <<>>
             THEN /\ input_file' = NoFile
                  /\ pc' = "done"
                  /\ result' = NoInputResult
                  /\ raised' = NoExc
                  /\ exc' = NoExc
             ELSE /\ input_file' = Glob(DATA_INPUTS)[1]
                  /\ pc' = "open"
                  /\ result' = NoResult
                  /\ raised' = NoExc
                  /\ exc' = NoExc
  /\ UNCHANGED <<env, out>>

\* with open(input_file, 'rb') as f
OpenFile ==
  /\ pc = "open"
  /\ IF input_file.kind = "dir"
     THEN Raise(Exc("IsADirectoryError", "Is a directory"))
     ELSE Goto("post")
  /\ UNCHANGED <<env, out, calls, locals, history>>

\* response = requests.post(url, files=files, params=params, timeout=300)
Post ==
  /\ pc = "post"
  /\ posts' = posts + 1
  /\ sent' = input_file
  /\ \/ \E r \in Responses :
          /\ response' = r
          /\ Goto("raise_for_status")
     \/ \E cls \in {"ReadTimeout", "ConnectTimeout", "ConnectionError"} :
          /\ Raise(Exc(cls, cls))
          /\ UNCHANGED response
  /\ UNCHANGED <<env, out, calls, input_files, input_file, result_json,
                 content, decoded, rfsRaised, written, outBefore>>

\* response.raise_for_status(): an HTTPError for a 4xx or 5xx status; the
\* exception object may or may not carry the response
RaiseForStatus ==
  /\ pc = "raise_for_status"
  /\ IF 400 <= response.status_code /\ response.status_code < 600
     THEN /\ rfsRaised' = TRUE
          /\ \E withResponse \in BOOLEAN :
               Raise([cls |-> "HTTPError", msg |-> "Client Error",
                      response |-> withResponse])
     ELSE /\ Goto("json")
          /\ UNCHANGED rfsRaised
  /\ UNCHANGED <<env, out, calls, locals, posts, sent, decoded, written,
                 outBefore>>

\* result = response.json()
Json ==
  /\ pc = "json"
  /\ decoded' = TRUE
  /\ IF response.body.kind = "notjson"
     THEN /\ Raise(Exc("JSONDecodeError", "Expecting value"))
          /\ UNCHANGED result_json
     ELSE /\ result_json' = response.body
          /\ Goto("check")
  /\ UNCHANGED <<env, out, calls, input_files, input_file, response, content,
                 posts, sent, rfsRaised, written, outBefore>>

\* if result.get('code') != 200: return ...; content = result.get('content', '')
CheckCode ==
  /\ pc = "check"
  /\ IF result_json.kind = "nonobject"
     THEN /\ Raise(Exc("AttributeError", "'list' object has no attribute 'get'"))
          /\ UNCHANGED content
     ELSE IF CodeIsNot200(result_json)
     THEN /\ Return(ParseFailedResult(result_json))
          /\ UNCHANGED content
     ELSE /\ content' = Get(result_json.content, "")
          /\ Goto("mkdir")
  /\ UNCHANGED <<env, out, calls, input_files, input_file, response,
                 result_json, history>>

\* DATA_OUTPUTS.mkdir(parents=True, exist_ok=True)
Mkdir ==
  /\ pc = "mkdir"
  /\ \/ /\ outDir' = TRUE
        /\ Goto("write")
     \/ /\ ~outDir
        /\ Raise(Exc("PermissionError", "Permission denied"))
        /\ UNCHANGED outDir
  /\ UNCHANGED <<env, outputs, calls, locals, history>>

\* output_path.write_text(content, encoding='utf-8') and the return of the
\* success dict.  write_text rejects a non-str before it opens the file;
\* opening creates or truncates the file; encoding and writing come last.
WriteText ==
  /\ pc = "write"
  /\ IF ~IsStr(content)
     THEN /\ Raise(Exc("TypeError", "data must be str"))
          /\ UNCHANGED <<outputs, written>>
     ELSE \/ /\ Raise(Exc("PermissionError", "Permission denied"))
             /\ UNCHANGED <<outputs, written>>
          \/ /\ written' = written \cup {OutputFilename(input_file)}
             /\ IF ~Utf8Encodable(content)
                THEN /\ outputs' = Put(outputs, OutputFilename(input_file), "")
                     /\ Raise(Exc("UnicodeEncodeError",
                                  "surrogates not allowed"))
                ELSE \/ /\ outputs' = Put(outputs, OutputFilename(input_file),
                                          content)
                        /\ Return(SuccessResult(content, input_file))
                     \/ /\ outputs' = Put(outputs, OutputFilename(input_file),
                                          "")
                        /\ Raise(Exc("OSError", "No space left on device"))
  /\ UNCHANGED <<env, outDir, calls, locals, posts, sent, decoded, rfsRaised,
                 outBefore>>

Next ==
  \/ Call
  \/ OpenFile
  \/ Post
  \/ RaiseForStatus
  \/ Json
  \/ CheckCode
  \/ Mkdir
  \/ WriteText

Spec == Init /\ [][Next]_vars

TypeOK ==
  /\ pc \in {"idle", "open", "post", "raise_for_status", "json", "check",
             "mkdir", "write", "done", "raised"}
  /\ calls \in 0..MaxCalls
  /\ (DOMAIN outputs # {} => outDir)

\* ---------------------------------------------------------------- claims
Returned == pc = "done"
Finished == pc \in {"done", "raised"}

Failed(code) ==
  /\ pc = "done"
  /\ result.success = FALSE
  /\ result.error_code = code

\* the case of C1: an input entry was found, the POST returned a response
\* whose status is no HTTP error and whose JSON body is an object with
\* code 200, and the call is over
C1_Case ==
  /\ Finished
  /\ input_files # <<>>
  /\ response # NoResponse
  /\ ~rfsRaised
  /\ response.body.kind = "object"
  /\ response.body.code = PyInt(200)

C1_Outcome(expected) ==
  /\ pc = "done"
  /\ result.success = TRUE
  /\ result.message = MSG_SUCCESS
  /\ result.content = expected
  /\ result.input_file = input_files[1].name
  /\ result.output_file = Stem(input_files[1].name) \o PARSED_SUFFIX
  /\ outDir
  /\ result.output_file \in DOMAIN outputs
  /\ outputs[result.output_file] = result.content
  /\ (outBefore.files = NoFiles => DOMAIN outputs = {result.output_file})

C2_Claim ==
  (calls > 0 /\ direct # <<>> /\ sub.state = "missing") =>
    /\ input_files # <<>>
    /\ input_file = direct[1]
    /\ (posts > 0 => sent = direct[1])

\* C3: when the listing of the input location has no entries, parse_file
\* returns the NO_INPUT_FILE dict, and it has sent no request and has left
\* data/outputs (the directory and its files) as it was.
C3_NoInput ==
  (calls > 0 /\ ~GlobRaises(DATA_INPUTS) /\ Glob(DATA_INPUTS) = <<>>) =>
    /\ pc = "done"
    /\ result = [success |-> FALSE, error |-> MSG_NO_INPUT,
                 error_code |-> "NO_INPUT_FILE"]
    /\ posts = 0
    /\ sent = NoFile
    /\ written = {}
    /\ outDir = outBefore.dir
    /\ outputs = outBefore.files

C3_Witness ==
  /\ calls > 0
  /\ sub.state = "dir"
  /\ sub.entries = <<>>
  /\ ~outDir
  /\ outputs = NoFiles
  /\ pc = "done"
  /\ result.error_code = "NO_INPUT_FILE"

\* C4: when the POST succeeded at the HTTP level and the decoded body is an
\* object whose 'code' is absent or not 200, parse_file returns the
\* PARSE_FAILED dict whose error is the body's 'message' (or the default
\* text when the body has none), and no output file is written.
C4_ParseFailed ==
  (/\ Finished
   /\ response # NoResponse
   /\ response.status_code < 400
   /\ response.body.kind = "object"
   /\ response.body.code # PyInt(200)) =>
    /\ pc = "done"
    /\ result = [success |-> FALSE,
                 error |-> IF response.body.message = ABSENT
                           THEN MSG_PARSE_FAILED
                           ELSE response.body.message,
                 error_code |-> "PARSE_FAILED"]
    /\ written = {}
    /\ outputs = outBefore.files
    /\ outDir = outBefore.dir

C4_Witness ==
  /\ pc = "done"
  /\ response.status_code = 200
  /\ response.body.kind = "object"
  /\ response.body.code = PyNone
  /\ response.body.message = ABSENT
  /\ result.error_code = "PARSE_FAILED"
  /\ result.error = MSG_PARSE_FAILED

\* C5 as stated: a Timeout raised by the POST gives TIMEOUT, a
\* ConnectionError gives CONNECTION_ERROR, an HTTPError raised by
\* raise_for_status gives HTTP_ERROR with the response's status code and
\* text in the message; success is False in each case.
C5_Claim ==
  (Finished /\ exc # NoExc) =>
    /\ (IsInstance(exc, "Timeout") => Failed("TIMEOUT"))
    /\ (IsInstance(exc, "ConnectionError") => Failed("CONNECTION_ERROR"))
    /\ (IsInstance(exc, "HTTPError") =>
          /\ Failed("HTTP_ERROR")
          /\ result.error = MSG_HTTP \o ToString(response.status_code)
                            \o " - " \o response.text)

\* C6 as stated: every returned dict contains 'success' and 'message', and
\* 'content' when success is True, 'error' and 'error_code' when it is
\* False.
C6_Claim ==
  Returned =>
    /\ {"success", "message"} \subseteq DOMAIN result
    /\ (result.success => "content" \in DOMAIN result)
    /\ (~result.success => {"error", "error_code"} \subseteq DOMAIN result)

\* C7 as stated: parse_file never propagates an exception; when a step
\* raises, the call returns a dict with success False and one of the six
\* error codes.
C7_Claim ==
  /\ pc # "raised"
  /\ (Returned /\ exc # NoExc) =>
       /\ result.success = FALSE
       /\ result.error_code \in {"NO_INPUT_FILE", "PARSE_FAILED", "TIMEOUT",
                                 "CONNECTION_ERROR", "HTTP_ERROR",
                                 "UNEXPECTED_ERROR"}

\* the output files that differ from what they were when the call started
ChangedOutputs ==
  {n \in DOMAIN outputs :
     n \notin DOMAIN outBefore.files \/ outputs[n] # outBefore.files[n]}

\* C8: an invocation posts at most once, the file it posts is the first
\* entry of the listing however many entries there are, and it writes at
\* most one output file.
C8_OneFile ==
  /\ posts <= 1
  /\ (posts = 1 => sent = input_files[1])
  /\ Cardinality(written) <= 1
  /\ Cardinality(ChangedOutputs) <= 1

C8_Witness ==
  /\ Len(input_files) >= 2
  /\ pc = "done"
  /\ result.success = TRUE
  /\ posts = 1
  /\ Cardinality(written) = 1

\* C9 as stated: whenever parse_file returns success False, the files of
\* data/outputs are what they were before the call.
C9_Claim ==
  (Returned /\ result.success = FALSE) => outputs = outBefore.files

\* C10 as stated: when raise_for_status raises, the result is HTTP_ERROR
\* whatever the body contains and the body is never decoded; success and
\* PARSE_FAILED are only returned for responses whose status is no error.
C10_Claim ==
  /\ rfsRaised => (~decoded /\ (Finished => Failed("HTTP_ERROR")))
  /\ (Returned /\ (result.success \/ result.error_code = "PARSE_FAILED")) =>
       (response.status_code < 400 /\ decoded)

====
